---- MODULE Spec2Model ----
(***************************************************************************)
(* test_project/main.c: a program that prints a fixed line, calls the      *)
(* external print_greeting(), stores the result of the external            *)
(* get_answer() in the local `answer`, prints it with "%d" and returns 0.  *)
(*                                                                         *)
(* The model holds two independent executions ("runs") of the program so   *)
(* that statements comparing two runs can be checked.  Each run has the    *)
(* program counter of main, the writes that reached standard output, the   *)
(* local variable, the exit status, and a history of what main did and     *)
(* what the external library did to it.                                    *)
(***************************************************************************)
EXTENDS Integers, Sequences, FiniteSets, TLC

VARIABLES pc, stdout, answer, exit_code, greeting, returned, trace

vars == <<pc, stdout, answer, exit_code, greeting, returned, trace>>

(***************************************************************************)
(* Bounds of the model and constants of the platform.                      *)
(***************************************************************************)
\* longest greeting the library emits, in lines
MaxGreetingLines == 2
\* get_answer returns every value of -MaxSmallAnswer..MaxSmallAnswer, and a
\* few values of more digits
MaxSmallAnswer == 2
\* `int answer` is a 32-bit two's complement integer
INT_MAX == 2147483647
INT_MIN == (0 - INT_MAX) - 1

\* the two executions that are compared
Runs == {1, 2}

(***************************************************************************)
(* Text.  A text is a string; a write to standard output is one text.      *)
(***************************************************************************)
StartLine == "Starting the main application.\n"
AnswerPrefix == "The retrieved answer is: "
Newline == "\n"

Digit(d) == SubSeq("0123456789", d + 1, d + 1)

RECURSIVE UDec(_)
\* the decimal digits of n >= 0, most significant first, no leading zero
UDec(n) == IF n < 10 THEN Digit(n) ELSE UDec(n \div 10) \o Digit(n % 10)

\* a plausible slip: the conversion is unsigned in effect and loses the sign
ToDecimalNoSign(v) ==
    IF v >= 0 THEN UDec(v)
    ELSE LET d == (10 - (v % 10)) % 10
             q == (0 - (v + d)) \div 10
         IN  (IF q = 0 THEN "" ELSE UDec(q)) \o Digit(d)

\* printf's %d conversion of an int: a minus sign for a negative value, then
\* the digits of the magnitude (computed without negating v, so that INT_MIN
\* is converted too)
ToDecimal(v) ==
    IF v >= 0 THEN UDec(v)
    ELSE LET d == (10 - (v % 10)) % 10
             q == (0 - (v + d)) \div 10
         IN  "-" \o (IF q = 0 THEN "" ELSE UDec(q)) \o Digit(d)

\* printf("The retrieved answer is: %d\n", v)
AnswerLine(v) == AnswerPrefix \o ToDecimal(v) \o Newline

(***************************************************************************)
(* The external library, seen from main: print_greeting writes some text   *)
(* to standard output and returns; get_answer returns some int.            *)
(***************************************************************************)
RECURSIVE GreetingText(_)
GreetingText(n) ==
    IF n = 0 THEN "" ELSE "Hello from my_lib!\n" \o GreetingText(n - 1)

Greetings == {GreetingText(n) : n \in 1..MaxGreetingLines}

Answers ==
    {v \in (0 - MaxSmallAnswer)..MaxSmallAnswer \cup {42, 0 - 42, 1000, INT_MAX, INT_MIN} :
        INT_MIN <= v /\ v <= INT_MAX}

(***************************************************************************)
(* History events.                                                         *)
(***************************************************************************)
Call(fn, args) == [op |-> "call", fn |-> fn, args |-> args]
Ret(fn) == [op |-> "return", fn |-> fn, args |-> <<>>]
Stmt(line) == [op |-> "stmt", fn |-> line, args |-> <<>>]

Positions ==
    {"L5", "L6", "in_print_greeting", "L7", "in_get_answer", "L8", "L9", "exited"}

(***************************************************************************)
(* Init: the process has been started and main has not executed anything.  *)
(***************************************************************************)
Init ==
    /\ pc = [r \in Runs |-> "L5"]
    /\ stdout = [r \in Runs |-> <<>>]
    /\ answer = [r \in Runs |-> <<>>]
    /\ exit_code = [r \in Runs |-> <<>>]
    /\ greeting = [r \in Runs |-> <<>>]
    /\ returned = [r \in Runs |-> <<>>]
    /\ trace = [r \in Runs |-> <<>>]

(***************************************************************************)
(* main, statement by statement.                                           *)
(***************************************************************************)
\* a plausible slip: the first printf is missing
PrintStartMissing(r) ==
    /\ pc[r] = "L5"
    /\ pc' = [pc EXCEPT ![r] = "L6"]
    /\ trace' = [trace EXCEPT ![r] = Append(@, Stmt("L5"))]
    /\ UNCHANGED <<stdout, answer, exit_code, greeting, returned>>

\* line 5: printf("Starting the main application.\n");
PrintStart(r) ==
    /\ pc[r] = "L5"
    /\ stdout' = [stdout EXCEPT ![r] = Append(@, StartLine)]
    /\ pc' = [pc EXCEPT ![r] = "L6"]
    /\ trace' = [trace EXCEPT ![r] = Append(@, Stmt("L5"))]
    /\ UNCHANGED <<answer, exit_code, greeting, returned>>

\* a plausible slip: the call of print_greeting is missing
CallPrintGreetingMissing(r) ==
    /\ pc[r] = "L6"
    /\ pc' = [pc EXCEPT ![r] = "L7"]
    /\ UNCHANGED <<stdout, answer, exit_code, greeting, returned, trace>>

\* line 6: print_greeting(); control passes to the library
CallPrintGreeting(r) ==
    /\ pc[r] = "L6"
    /\ pc' = [pc EXCEPT ![r] = "in_print_greeting"]
    /\ trace' = [trace EXCEPT ![r] = Append(@, Call("print_greeting", <<>>))]
    /\ UNCHANGED <<stdout, answer, exit_code, greeting, returned>>

\* line 6: print_greeting has written its greeting and returns to main
PrintGreetingReturns(r) ==
    /\ pc[r] = "in_print_greeting"
    /\ \E g \in Greetings :
          /\ stdout' = [stdout EXCEPT ![r] = Append(@, g)]
          /\ greeting' = [greeting EXCEPT ![r] = <<g>>]
    /\ pc' = [pc EXCEPT ![r] = "L7"]
    /\ trace' = [trace EXCEPT ![r] = Append(@, Ret("print_greeting"))]
    /\ UNCHANGED <<answer, exit_code, returned>>

\* line 7: get_answer(); control passes to the library
CallGetAnswer(r) ==
    /\ pc[r] = "L7"
    /\ pc' = [pc EXCEPT ![r] = "in_get_answer"]
    /\ trace' = [trace EXCEPT ![r] = Append(@, Call("get_answer", <<>>))]
    /\ UNCHANGED <<stdout, answer, exit_code, greeting, returned>>

\* a plausible slip: the result is dropped and `answer` is left uninitialized,
\* so that it holds whatever the stack held
GetAnswerReturnsDropped(r) ==
    /\ pc[r] = "in_get_answer"
    /\ \E v \in Answers : returned' = [returned EXCEPT ![r] = <<v>>]
    /\ \E w \in Answers : answer' = [answer EXCEPT ![r] = <<w>>]
    /\ pc' = [pc EXCEPT ![r] = "L8"]
    /\ trace' = [trace EXCEPT ![r] = Append(@, Ret("get_answer"))]
    /\ UNCHANGED <<stdout, exit_code, greeting>>

\* line 7: get_answer returns v, and  int answer = v
GetAnswerReturns(r) ==
    /\ pc[r] = "in_get_answer"
    /\ \E v \in Answers :
          /\ returned' = [returned EXCEPT ![r] = <<v>>]
          /\ answer' = [answer EXCEPT ![r] = <<v>>]
    /\ pc' = [pc EXCEPT ![r] = "L8"]
    /\ trace' = [trace EXCEPT ![r] = Append(@, Ret("get_answer"))]
    /\ UNCHANGED <<stdout, exit_code, greeting>>

\* a plausible slip: main gives up with status 1 on a negative answer
PrintAnswerOrFail(r) ==
    /\ pc[r] = "L8"
    /\ IF answer[r][1] < 0
       THEN /\ pc' = [pc EXCEPT ![r] = "exited"]
            /\ exit_code' = [exit_code EXCEPT ![r] = <<1>>]
            /\ UNCHANGED <<stdout, trace>>
       ELSE /\ stdout' = [stdout EXCEPT ![r] = Append(@, AnswerLine(answer[r][1]))]
            /\ pc' = [pc EXCEPT ![r] = "L9"]
            /\ trace' = [trace EXCEPT ![r] = Append(@, Stmt("L8"))]
            /\ UNCHANGED exit_code
    /\ UNCHANGED <<answer, greeting, returned>>

\* line 8: printf("The retrieved answer is: %d\n", answer);
PrintAnswer(r) ==
    /\ pc[r] = "L8"
    /\ stdout' = [stdout EXCEPT ![r] = Append(@, AnswerLine(answer[r][1]))]
    /\ pc' = [pc EXCEPT ![r] = "L9"]
    /\ trace' = [trace EXCEPT ![r] = Append(@, Stmt("L8"))]
    /\ UNCHANGED <<answer, exit_code, greeting, returned>>

\* a plausible slip: return answer;  (the status is the low 8 bits)
ReturnAnswer(r) ==
    /\ pc[r] = "L9"
    /\ exit_code' = [exit_code EXCEPT ![r] = <<answer[r][1] % 256>>]
    /\ pc' = [pc EXCEPT ![r] = "exited"]
    /\ trace' = [trace EXCEPT ![r] = Append(@, Stmt("L9"))]
    /\ UNCHANGED <<stdout, answer, greeting, returned>>

\* a plausible slip: main waits at its end for something that never comes
ReturnBlocked(r) ==
    /\ pc[r] = "L9"
    /\ UNCHANGED vars

\* line 9: return 0;
Return(r) ==
    /\ pc[r] = "L9"
    /\ exit_code' = [exit_code EXCEPT ![r] = <<0>>]
    /\ pc' = [pc EXCEPT ![r] = "exited"]
    /\ trace' = [trace EXCEPT ![r] = Append(@, Stmt("L9"))]
    /\ UNCHANGED <<stdout, answer, greeting, returned>>

Step(r) ==
    \/ PrintStart(r)
    \/ CallPrintGreeting(r)
    \/ PrintGreetingReturns(r)
    \/ CallGetAnswer(r)
    \/ GetAnswerReturns(r)
    \/ PrintAnswer(r)
    \/ Return(r)

Next == \E r \in Runs : Step(r)

Spec == Init /\ [][Next]_vars

\* each run is a process the system keeps running, and each external call
\* returns: a step that can be taken is taken
FairSpec == Spec /\ \A r \in Runs : WF_vars(Step(r))

(***************************************************************************)
(* Reading text back, for the statements about what was printed.           *)
(***************************************************************************)
DigitChars == <<"0", "1", "2", "3", "4", "5", "6", "7", "8", "9">>

CharAt(s, i) == SubSeq(s, i, i)

IsDigitChar(c) == \E i \in DOMAIN DigitChars : DigitChars[i] = c

DigitValue(c) == (CHOOSE i \in DOMAIN DigitChars : DigitChars[i] = c) - 1

HasPrefix(s, p) == Len(s) >= Len(p) /\ SubSeq(s, 1, Len(p)) = p

EndsWithNewline(s) == Len(s) >= 1 /\ CharAt(s, Len(s)) = Newline

\* a digit string with no leading zero, or such a string other than "0"
\* behind one minus sign
IsCanonicalDecimal(s) ==
    LET neg == Len(s) >= 1 /\ CharAt(s, 1) = "-"
        m == IF neg THEN SubSeq(s, 2, Len(s)) ELSE s
    IN  /\ Len(m) >= 1
        /\ \A i \in 1..Len(m) : IsDigitChar(CharAt(m, i))
        /\ (Len(m) > 1 \/ neg) => CharAt(m, 1) # "0"

RECURSIVE ParseNegated(_, _)
\* minus the number the digits of m denote (accumulated below zero, where the
\* int range has room for the magnitude of INT_MIN)
ParseNegated(m, acc) ==
    IF Len(m) = 0 THEN acc
    ELSE ParseNegated(SubSeq(m, 2, Len(m)), (acc * 10) - DigitValue(CharAt(m, 1)))

ParseDecimal(s) ==
    IF CharAt(s, 1) = "-" THEN ParseNegated(SubSeq(s, 2, Len(s)), 0)
    ELSE 0 - ParseNegated(s, 0)

\* the text between the fixed prefix and the final newline of an answer line
AnswerField(line) == SubSeq(line, Len(AnswerPrefix) + 1, Len(line) - 1)

IsAnswerLine(line) ==
    /\ HasPrefix(line, AnswerPrefix)
    /\ Len(line) > Len(AnswerPrefix) + 1
    /\ EndsWithNewline(line)

Exited(r) == pc[r] = "exited"

PosOrder ==
    <<"L5", "L6", "in_print_greeting", "L7", "in_get_answer", "L8", "L9", "exited">>

PosIndex(p) == CHOOSE i \in DOMAIN PosOrder : PosOrder[i] = p

\* what a run has done when it has done everything
FullTrace ==
    <<Stmt("L5"), Call("print_greeting", <<>>), Ret("print_greeting"),
      Call("get_answer", <<>>), Ret("get_answer"), Stmt("L8"), Stmt("L9")>>

Count(r, e) == Cardinality({i \in DOMAIN trace[r] : trace[r][i] = e})

(***************************************************************************)
(* C1.  In every run the observable events come in this order: the start   *)
(* line is written, then print_greeting's output, then the answer line,    *)
(* then the exit with code 0.  At every moment the output is a prefix of   *)
(* <<start line, greeting, answer line>>, the greeting is never there      *)
(* without the start line before it, and the process has exited only with  *)
(* all three written.                                                      *)
(***************************************************************************)
C1_OutputOrder ==
    \A r \in Runs :
        LET out == stdout[r] IN
        /\ Len(out) <= 3
        /\ Len(out) >= 1 => out[1] = StartLine
        /\ Len(out) >= 2 => greeting[r] # <<>> /\ out[2] = greeting[r][1]
        /\ Len(out) >= 3 => IsAnswerLine(out[3])
        /\ greeting[r] # <<>> => Len(out) >= 2
        /\ exit_code[r] # <<>> => Len(out) = 3 /\ exit_code[r] = <<0>>
        /\ Exited(r) => exit_code[r] # <<>>

C1_Witness ==
    \E r \in Runs :
        /\ Exited(r)
        /\ stdout[r] = <<StartLine, GreetingText(1), "The retrieved answer is: 42\n">>
        /\ exit_code[r] = <<0>>

(***************************************************************************)
(* C2.  Whatever int v get_answer returned, the last line main prints is   *)
(* "The retrieved answer is: " followed by the decimal rendering of        *)
(* exactly v: the field is a canonical decimal numeral and reads back as   *)
(* v; for v = 42 the line is "The retrieved answer is: 42".                *)
(***************************************************************************)
C2_AnswerPrinted ==
    \A r \in Runs :
        pc[r] \in {"L9", "exited"} =>
            LET line == stdout[r][Len(stdout[r])] IN
            /\ IsAnswerLine(line)
            /\ IsCanonicalDecimal(AnswerField(line))
            /\ ParseDecimal(AnswerField(line)) = returned[r][1]
            /\ returned[r] = <<42>> => line = "The retrieved answer is: 42\n"

C2_Witness ==
    /\ Exited(1) /\ Exited(2)
    /\ returned[1] = <<42>>
    /\ stdout[1][3] = "The retrieved answer is: 42\n"
    /\ returned[2] = <<INT_MIN>>
    /\ stdout[2][3] = "The retrieved answer is: -2147483648\n"

(***************************************************************************)
(* C3.  A run that has completed has exit code 0, whatever get_answer      *)
(* returned and whatever print_greeting printed; no exit code other than   *)
(* 0 is ever set, and none is set before main returns.                     *)
(***************************************************************************)
C3_ExitCodeZero ==
    \A r \in Runs :
        /\ Exited(r) => exit_code[r] = <<0>>
        /\ exit_code[r] # <<>> => Exited(r) /\ exit_code[r] = <<0>>

C3_Witness ==
    /\ Exited(1) /\ Exited(2)
    /\ returned[1][1] < 0 /\ returned[2][1] > 0
    /\ greeting[1] # greeting[2]
    /\ exit_code[1] = <<0>> /\ exit_code[2] = <<0>>

(***************************************************************************)
(* C4.  main has no failure path: a run is always at one of main's         *)
(* positions, has done exactly the steps before that position, none        *)
(* skipped; a run that has not exited can take its next step; a run that   *)
(* has exited has done the final print and the return.                     *)
(***************************************************************************)
C4_NoFailurePath ==
    \A r \in Runs :
        /\ pc[r] \in Positions
        /\ trace[r] = SubSeq(FullTrace, 1, PosIndex(pc[r]) - 1)
        /\ ~Exited(r) => ENABLED Step(r)
        /\ Exited(r) =>
              /\ trace[r][Len(trace[r]) - 1] = Stmt("L8")
              /\ trace[r][Len(trace[r])] = Stmt("L9")
              /\ IsAnswerLine(stdout[r][Len(stdout[r])])

C4_Witness ==
    /\ Exited(1) /\ trace[1] = FullTrace /\ returned[1][1] < 0
    /\ pc[2] = "in_get_answer"

(***************************************************************************)
(* C5.  In every run print_greeting is called exactly once and get_answer  *)
(* exactly once, both with no arguments, and print_greeting has returned   *)
(* before get_answer is called.                                            *)
(***************************************************************************)
C5_CallsOnceInOrder ==
    \A r \in Runs :
        /\ Count(r, Call("print_greeting", <<>>)) <= 1
        /\ Count(r, Call("get_answer", <<>>)) <= 1
        /\ \A i \in DOMAIN trace[r] :
              /\ trace[r][i].op = "call" =>
                    /\ trace[r][i].fn \in {"print_greeting", "get_answer"}
                    /\ trace[r][i].args = <<>>
              /\ trace[r][i] = Call("get_answer", <<>>) =>
                    \E j \in 1..(i - 1) : trace[r][j] = Ret("print_greeting")
              /\ trace[r][i] = Ret("print_greeting") =>
                    \E j \in 1..(i - 1) : trace[r][j] = Call("print_greeting", <<>>)
        /\ pc[r] \in {"in_get_answer", "L8", "L9", "exited"} =>
              /\ Count(r, Call("print_greeting", <<>>)) = 1
              /\ Count(r, Ret("print_greeting")) = 1
              /\ Count(r, Call("get_answer", <<>>)) = 1

C5_Witness ==
    \E r \in Runs :
        /\ Exited(r)
        /\ Count(r, Call("print_greeting", <<>>)) = 1
        /\ Count(r, Call("get_answer", <<>>)) = 1

(***************************************************************************)
(* C6.  Given that each external call returns, main terminates: every run  *)
(* eventually exits, and no step of a run moves it back to an earlier      *)
(* position (the sequence has no loop).                                    *)
(***************************************************************************)
C6_Termination ==
    /\ \A r \in Runs : <>Exited(r)
    /\ [][\A r \in Runs : PosIndex(pc'[r]) >= PosIndex(pc[r])]_vars

C6_Witness ==
    \A r \in Runs : Exited(r) /\ Len(trace[r]) = Len(FullTrace)

(***************************************************************************)
(* C7.  The output and the exit code are a function of the library's       *)
(* behaviour alone: two complete runs in which print_greeting wrote the    *)
(* same text and get_answer returned the same int have the same standard   *)
(* output and the same exit code.                                          *)
(***************************************************************************)
C7_Determinism ==
    \A r1, r2 \in Runs :
        (/\ Exited(r1) /\ Exited(r2)
         /\ greeting[r1] = greeting[r2]
         /\ returned[r1] = returned[r2])
        => (stdout[r1] = stdout[r2] /\ exit_code[r1] = exit_code[r2])

C7_Witness ==
    /\ Exited(1) /\ Exited(2)
    /\ greeting[1] = greeting[2]
    /\ returned[1] = returned[2]
    /\ returned[1][1] < 0
    /\ stdout[1] = stdout[2]

====
